---- MODULE Spec2Model ----
(***************************************************************************)
(* A model of src/ipfs_scraper.py: the AceStreamScraper class (fetch with  *)
(* retry, regex extraction with de-duplication, the two playlist writers)  *)
(* and the main() driver.                                                  *)
(*                                                                         *)
(* Text is modelled as a sequence of one-character strings, so that the    *)
(* writers, str.split and a line-based reader are computed character by    *)
(* character.  The regular-expression searches of extract_from_script are  *)
(* abstracted to their results: a document says whether the script tag and *)
(* the linksData assignment are found and which (name, url) records        *)
(* re.finditer yields, in match order.                                     *)
(***************************************************************************)
EXTENDS Integers, Sequences, FiniteSets, TLC

VARIABLES
  scraper,    \* the AceStreamScraper object (NoScraper before construction)
  gen,        \* how many objects have been constructed so far (instance identity)
  returned,   \* history: concatenation of the lists extract_from_script returned on this object
  frame,      \* the activation of scrape(): locals, position, and the record of its attempts
  files,      \* the file system: file name -> whether it exists, and its text
  files0,     \* history: the file system before the program started
  wlog,       \* history: file name -> the writer call that produced the file last
  mainpc,     \* position of main(); "lib" when the class is used without main()
  console,    \* what main() printed: the summary line
  last,       \* history: the last direct call of extract_from_script
  memo,       \* history: the previous call of extract_from_script on a fresh object
  arg,        \* the channel list a caller hands to the writers
  touched,    \* history: extract_from_script has run on this object
  lastOp      \* history: the methods that ran in the last step

vars == <<scraper, gen, returned, frame, files, files0, wlog, mainpc, console,
          last, memo, arg, touched, lastOp>>

NoScraper == [timeout |-> 0, retries |-> 0, identified_ids |-> {}]
NoFile == [exists |-> FALSE, text |-> <<>>]
OldFile == [exists |-> TRUE, text |-> <<"o", "l", "d", "\n">>]
NoDoc == [script |-> FALSE, json |-> FALSE, links |-> <<>>]
NotWritten == [op |-> "none", channels |-> <<>>]

(***************************************************************************)
(* Bounds of the model.                                                    *)
(***************************************************************************)
MaxRecords == 2        \* records in a document handed to extract_from_script directly
MaxPageRecords == 2    \* records in a document served to fetch_content
MaxRetries == 2        \* largest retry count a caller configures
MaxInstances == 2      \* objects constructed in one behaviour
MaxStartTimeout == 15  \* scrape() is started only with a timeout up to this
MaxChannels == 2       \* length of a channel list handed to a writer directly
MaxStrLen == 1         \* length of a name or an identifier handed to a writer directly

(***************************************************************************)
(* Program constants.                                                      *)
(***************************************************************************)
DefaultTimeout == 10
DefaultRetries == 3
TimeoutIncrement == 5

DefaultTxtName == "acestream_channels.txt"
DefaultM3uName == "acestream_playlist.m3u"
FileNames == {DefaultTxtName, DefaultM3uName}

NL == "\n"
EXTM3U == <<"#", "E", "X", "T", "M", "3", "U">>
EXTINF == <<"#", "E", "X", "T", "I", "N", "F", ":", "-", "1", ",">>
GetStream == <<"h", "t", "t", "p", ":", "/", "/", "1", "2", "7", ".", "0", ".", "0",
               ".", "1", ":", "6", "8", "7", "8", "/", "a", "c", "e", "/", "g", "e",
               "t", "s", "t", "r", "e", "a", "m", "?", "i", "d", "=">>
AceScheme == <<"a", "c", "e", "s", "t", "r", "e", "a", "m", ":", "/", "/">>

(***************************************************************************)
(* Texts.                                                                  *)
(***************************************************************************)
SeqsUpTo(S, n) == UNION {[1..k -> S] : k \in 0..n}

StartsWith(s, p) == Len(s) >= Len(p) /\ SubSeq(s, 1, Len(p)) = p

\* the least index at or after `from` where sep occurs in s; 0 when there is none
RECURSIVE FindFrom(_, _, _)
FindFrom(s, sep, from) ==
  IF from + Len(sep) - 1 > Len(s) THEN 0
  ELSE IF SubSeq(s, from, from + Len(sep) - 1) = sep THEN from
  ELSE FindFrom(s, sep, from + 1)

\* str.split(sep): the parts of s between the occurrences of sep, left to right
RECURSIVE Split(_, _)
Split(s, sep) ==
  LET k == FindFrom(s, sep, 1)
  IN IF k = 0 THEN <<s>>
     ELSE <<SubSeq(s, 1, k - 1)>> \o Split(SubSeq(s, k + Len(sep), Len(s)), sep)

\* the lines of a text: each is ended by NL; a non-empty rest without NL is a last line
Lines(s) ==
  LET parts == Split(s, <<NL>>)
  IN IF parts[Len(parts)] = <<>> THEN SubSeq(parts, 1, Len(parts) - 1) ELSE parts

(***************************************************************************)
(* Documents, as extract_from_script sees them.  script: soup.find yields  *)
(* a script tag holding "const linksData"; json: the assignment pattern    *)
(* matches inside it; links: the records re.finditer yields from the       *)
(* matched text, in match order.  Group 2 of a record is the matched url,  *)
(* "acestream://" followed by one or more word characters; group 1 is the  *)
(* name, any text without a line break.                                    *)
(***************************************************************************)
Tokens == {<<"a">>, <<"b">>}
Names == {<<"x">>, <<"y">>}
Records == {[name |-> n, url |-> AceScheme \o t] : n \in Names, t \in Tokens}

DocsOf(R, n) ==
  {[script |-> TRUE, json |-> TRUE, links |-> l] : l \in SeqsUpTo(R, n)}
  \cup {[script |-> s, json |-> FALSE, links |-> l] : s \in BOOLEAN, l \in SeqsUpTo(R, 1)}

\* the documents handed to extract_from_script directly
Docs == DocsOf(Records, MaxRecords)

\* the documents served to fetch_content: every record carries the same name
PageRecords == {r \in Records : r.name = <<"x">>}
Pages == DocsOf(PageRecords, MaxPageRecords)

(***************************************************************************)
(* AceStreamScraper.__init__                                               *)
(***************************************************************************)
NewScraperShared(timeout, retries) ==
  [timeout |-> timeout, retries |-> retries, identified_ids |-> scraper.identified_ids]

NewScraper(timeout, retries) ==
  [timeout |-> timeout, retries |-> retries, identified_ids |-> {}]

(***************************************************************************)
(* AceStreamScraper.extract_from_script                                    *)
(***************************************************************************)
\* channel_id = url.split('acestream://')[1]
ChannelId(url) == Split(url, AceScheme)[2]

AdmitAlways(channel_id, ids) == channel_id # <<>>

\* if channel_id and channel_id not in self.identified_ids
Admit(channel_id, ids) == channel_id # <<>> /\ channel_id \notin ids

RememberNothing(ids, channel_id) == ids

\* self.identified_ids.add(channel_id)
Remember(ids, channel_id) == ids \cup {channel_id}

PrependChannel(channels, channel_id, name) == <<<<channel_id, name>>>> \o channels

\* channels.append((channel_id, name))
AppendChannel(channels, channel_id, name) == Append(channels, <<channel_id, name>>)

\* the matches the for loop runs over: none unless both searches succeed
Matched(doc) == IF doc.script /\ doc.json THEN doc.links ELSE <<>>

\* the for loop from its k-th match on
RECURSIVE ExtractLoop(_, _, _, _)
ExtractLoop(matches, k, channels, ids) ==
  IF k > Len(matches) THEN [channels |-> channels, identified_ids |-> ids]
  ELSE LET name == matches[k].name
           url == matches[k].url
           channel_id == ChannelId(url)
       IN IF Admit(channel_id, ids)
          THEN ExtractLoop(matches, k + 1, AppendChannel(channels, channel_id, name),
                           Remember(ids, channel_id))
          ELSE ExtractLoop(matches, k + 1, channels, ids)

\* the returned list and the seen set after the call
ExtractFromScript(self, doc) == ExtractLoop(Matched(doc), 1, <<>>, self.identified_ids)

(***************************************************************************)
(* The writers.                                                            *)
(***************************************************************************)
RECURSIVE LegacyBody(_, _)
LegacyBody(channels, k) ==
  IF k > Len(channels) THEN <<>>
  ELSE LET channel_id == channels[k][1]
           name == channels[k][2]
       IN EXTINF \o name \o <<NL>> \o GetStream \o channel_id \o <<NL>>
          \o LegacyBody(channels, k + 1)

RECURSIVE NativeBody(_, _)
NativeBody(channels, k) ==
  IF k > Len(channels) THEN <<>>
  ELSE LET channel_id == channels[k][1]
           name == channels[k][2]
       IN EXTINF \o name \o <<NL>> \o AceScheme \o channel_id \o <<NL>>
          \o NativeBody(channels, k + 1)

\* what save_to_file writes between open(filename, "w") and close
SaveToFileText(channels) == EXTM3U \o <<NL>> \o LegacyBody(channels, 1)

\* what save_to_m3u writes between open(filename, "w") and close
SaveToM3uText(channels) == EXTM3U \o <<NL>> \o NativeBody(channels, 1)

(***************************************************************************)
(* State.                                                                  *)
(***************************************************************************)
IdleFrame ==
  [pc |-> "idle", retries_left |-> 0, channels |-> <<>>,
   t0 |-> 0, used |-> <<>>, outcomes |-> <<>>, doc |-> NoDoc]

NoCall == [called |-> FALSE, doc |-> NoDoc, fresh |-> FALSE, empty |-> FALSE, result |-> <<>>]
NoMemo == [set |-> FALSE, same |-> FALSE, result |-> <<>>]

Retries == -1..MaxRetries

WriterChars == {"a", NL}
WriterStrings == SeqsUpTo(WriterChars, MaxStrLen)
ChannelLists == SeqsUpTo(WriterStrings \X WriterStrings, MaxChannels)

InitCommon ==
  /\ returned = <<>>
  /\ touched = FALSE
  /\ frame = IdleFrame
  /\ files = files0
  /\ wlog = [f \in FileNames |-> NotWritten]
  /\ console = <<>>
  /\ last = NoCall
  /\ memo = NoMemo
  /\ lastOp = {}

\* the program before its first statement: run as a script ("start") or used as a library
Init ==
  /\ mainpc \in {"lib", "start"}
  /\ files0 \in {[f \in FileNames |-> NoFile]}
                \cup (IF mainpc = "start" THEN {[f \in FileNames |-> OldFile]} ELSE {})
  /\ InitCommon
  /\ scraper = NoScraper
  /\ gen = 0
  /\ arg = <<>>

(***************************************************************************)
(* scraper = AceStreamScraper(url, timeout, retries)                       *)
(***************************************************************************)
Construct(timeout, retries) ==
  /\ mainpc = "lib"
  /\ frame.pc # "running"
  /\ gen < MaxInstances
  /\ scraper' = NewScraper(timeout, retries)
  /\ gen' = gen + 1
  /\ returned' = <<>>
  /\ touched' = FALSE
  /\ frame' = IdleFrame
  /\ lastOp' = {"__init__"}
  /\ UNCHANGED <<files, files0, wlog, mainpc, console, last, memo, arg>>

(***************************************************************************)
(* scraper.extract_from_script(soup), called by the user of the class      *)
(***************************************************************************)
ExtractApply(doc) ==
  LET r == ExtractFromScript(scraper, doc)
  IN /\ scraper' = [scraper EXCEPT !.identified_ids = r.identified_ids]
     /\ returned' = returned \o r.channels
     /\ touched' = TRUE

\* the call, with the history of direct calls recorded
ExtractCall(doc) ==
  /\ mainpc = "lib"
  /\ gen > 0
  /\ frame.pc # "running"
  /\ ExtractApply(doc)
  /\ last' = [called |-> TRUE, doc |-> doc, fresh |-> ~touched,
              empty |-> scraper.identified_ids = {},
              result |-> ExtractFromScript(scraper, doc).channels]
  /\ memo' = IF last.called /\ last.fresh
             THEN [set |-> TRUE, same |-> last.doc = doc, result |-> last.result]
             ELSE NoMemo
  /\ lastOp' = {"extract_from_script"}
  /\ UNCHANGED <<gen, frame, files, files0, wlog, mainpc, console, arg>>

\* the call, without that history
ExtractQuiet(doc) ==
  /\ mainpc = "lib"
  /\ gen > 0
  /\ frame.pc # "running"
  /\ ExtractApply(doc)
  /\ lastOp' = {"extract_from_script"}
  /\ UNCHANGED <<gen, frame, files, files0, wlog, mainpc, console, last, memo, arg>>

(***************************************************************************)
(* AceStreamScraper.scrape.  fetch_content either returns the text of the  *)
(* response or raises (network error, timeout, bad status); each attempt   *)
(* of the loop is one step, named by how its fetch ended.                  *)
(***************************************************************************)
\* while retries_left >= 0
LoopCondition(retries_left) == retries_left >= 0

ExhaustedEarly(retries_left) == retries_left <= 0

\* if retries_left < 0: break
Exhausted(retries_left) == retries_left < 0

KeepTimeout(timeout) == timeout

\* self.timeout += 5
WidenTimeout(timeout) == timeout + TimeoutIncrement

ReturnsUnlessEmpty(channels, retries_left) == channels # <<>> \/ retries_left = 0

\* return channels, the last statement of the try block
ReturnsOnSuccess(channels, retries_left) == TRUE

\* channels = []; retries_left = self.retries; the first test of the loop condition
BeginScrape ==
  /\ frame' = [pc |-> IF LoopCondition(scraper.retries) THEN "running" ELSE "returned",
               retries_left |-> scraper.retries, channels |-> <<>>,
               t0 |-> scraper.timeout, used |-> <<>>, outcomes |-> <<>>, doc |-> NoDoc]

ScrapeBegin ==
  /\ mainpc = "lib"
  /\ gen > 0
  /\ frame.pc # "running"
  /\ scraper.timeout <= MaxStartTimeout
  /\ BeginScrape
  /\ lastOp' = {"scrape"}
  /\ UNCHANGED <<scraper, gen, returned, touched, files, files0, wlog, mainpc, console,
                 last, memo, arg>>

\* an attempt whose fetch raises: the except block
FetchFail ==
  /\ frame.pc = "running"
  /\ LET rl == frame.retries_left - 1
         tried == [frame EXCEPT !.retries_left = rl,
                                !.used = Append(@, scraper.timeout),
                                !.outcomes = Append(@, "fail")]
     IN IF Exhausted(rl)
        THEN /\ frame' = [tried EXCEPT !.pc = "returned"]
             /\ scraper' = scraper
        ELSE /\ scraper' = [scraper EXCEPT !.timeout = WidenTimeout(@)]
             /\ frame' = [tried EXCEPT !.pc = IF LoopCondition(rl) THEN "running"
                                              ELSE "returned"]
  /\ lastOp' = {"scrape", "fetch_content"}
  /\ UNCHANGED <<gen, returned, touched, files, files0, wlog, mainpc, console, last, memo, arg>>

\* an attempt whose fetch returns the document doc: the rest of the try block
FetchSucceed(doc) ==
  /\ frame.pc = "running"
  /\ ExtractApply(doc)
  /\ LET script_channels == ExtractFromScript(scraper, doc).channels
         channels == frame.channels \o script_channels
     IN frame' = [frame EXCEPT !.channels = channels,
                               !.used = Append(@, scraper.timeout),
                               !.outcomes = Append(@, "ok"),
                               !.doc = doc,
                               !.pc = IF ReturnsOnSuccess(channels, frame.retries_left)
                                      THEN "returned" ELSE "running"]
  /\ lastOp' = {"scrape", "fetch_content", "extract_from_script"}
  /\ UNCHANGED <<gen, files, files0, wlog, mainpc, console, last, memo, arg>>

(***************************************************************************)
(* save_to_file and save_to_m3u: open(filename, "w") replaces the file.    *)
(***************************************************************************)
SaveToFile(channels, filename) ==
  /\ files' = [files EXCEPT ![filename] = [exists |-> TRUE, text |-> SaveToFileText(channels)]]
  /\ wlog' = [wlog EXCEPT ![filename] = [op |-> "save_to_file", channels |-> channels]]

SaveToM3u(channels, filename) ==
  /\ files' = [files EXCEPT ![filename] = [exists |-> TRUE, text |-> SaveToM3uText(channels)]]
  /\ wlog' = [wlog EXCEPT ![filename] = [op |-> "save_to_m3u", channels |-> channels]]

\* the writers, called by the user of the class
SaveToFileCall(channels, filename) ==
  /\ mainpc = "lib"
  /\ gen > 0
  /\ frame.pc # "running"
  /\ SaveToFile(channels, filename)
  /\ lastOp' = {"save_to_file"}
  /\ UNCHANGED <<scraper, gen, returned, touched, frame, files0, mainpc, console,
                 last, memo, arg>>

SaveToM3uCall(channels, filename) ==
  /\ mainpc = "lib"
  /\ gen > 0
  /\ frame.pc # "running"
  /\ SaveToM3u(channels, filename)
  /\ lastOp' = {"save_to_m3u"}
  /\ UNCHANGED <<scraper, gen, returned, touched, frame, files0, mainpc, console,
                 last, memo, arg>>

(***************************************************************************)
(* main()                                                                  *)
(***************************************************************************)
NoOutput == [line |-> "", count |-> 0]

TruthyAlways(channels) == TRUE

\* if channels
Truthy(channels) == channels # <<>>

\* scraper = AceStreamScraper(url)
MainConstruct ==
  /\ mainpc = "start"
  /\ scraper' = NewScraper(DefaultTimeout, DefaultRetries)
  /\ gen' = gen + 1
  /\ mainpc' = "constructed"
  /\ lastOp' = {"main", "__init__"}
  /\ UNCHANGED <<returned, touched, frame, files, files0, wlog, console, last, memo, arg>>

\* channels = await scraper.scrape(): the call
MainScrape ==
  /\ mainpc = "constructed"
  /\ BeginScrape
  /\ mainpc' = "scrape"
  /\ lastOp' = {"main", "scrape"}
  /\ UNCHANGED <<scraper, gen, returned, touched, files, files0, wlog, console, last, memo, arg>>

\* scrape() has returned: the test of the result and the summary that is printed
MainReport ==
  /\ mainpc = "scrape"
  /\ frame.pc = "returned"
  /\ IF Truthy(frame.channels)
     THEN /\ console' = [line |-> "Found channels", count |-> Len(frame.channels)]
          /\ mainpc' = "save_to_file"
     ELSE /\ console' = [line |-> "No channels found", count |-> 0]
          /\ mainpc' = "done"
  /\ lastOp' = {"main"}
  /\ UNCHANGED <<scraper, gen, returned, touched, frame, files, files0, wlog, last, memo, arg>>

\* scraper.save_to_file(channels)
MainSaveToFile ==
  /\ mainpc = "save_to_file"
  /\ SaveToFile(frame.channels, DefaultTxtName)
  /\ mainpc' = "save_to_m3u"
  /\ lastOp' = {"main", "save_to_file"}
  /\ UNCHANGED <<scraper, gen, returned, touched, frame, files0, console, last, memo, arg>>

\* scraper.save_to_m3u(channels)
MainSaveToM3u ==
  /\ mainpc = "save_to_m3u"
  /\ SaveToM3u(frame.channels, DefaultM3uName)
  /\ mainpc' = "done"
  /\ lastOp' = {"main", "save_to_m3u"}
  /\ UNCHANGED <<scraper, gen, returned, touched, frame, files0, console, last, memo, arg>>

(***************************************************************************)
(* Specifications.                                                         *)
(***************************************************************************)
\* the class used as a library, or the script run through main()
Next ==
  \/ \E r \in Retries : Construct(DefaultTimeout, r)
  \/ \E d \in Pages : ExtractQuiet(d)
  \/ ScrapeBegin
  \/ FetchFail
  \/ \E d \in Pages : FetchSucceed(d)
  \/ MainConstruct
  \/ MainScrape
  \/ MainReport
  \/ MainSaveToFile
  \/ MainSaveToM3u

Spec == Init /\ [][Next]_vars

\* direct calls of extract_from_script on freshly built and on used objects
InitExtract ==
  /\ files0 = [f \in FileNames |-> NoFile]
  /\ InitCommon
  /\ scraper = NoScraper
  /\ gen = 0
  /\ mainpc = "lib"
  /\ arg = <<>>

NextExtract ==
  \/ Construct(DefaultTimeout, DefaultRetries)
  \/ \E d \in Docs : ExtractCall(d)

SpecExtract == InitExtract /\ [][NextExtract]_vars

\* direct calls of the writers on a constructed object, with any channel list
InitWriter ==
  /\ files0 \in {[f \in FileNames |-> NoFile], [f \in FileNames |-> OldFile]}
  /\ InitCommon
  /\ scraper = NewScraper(DefaultTimeout, DefaultRetries)
  /\ gen = 1
  /\ mainpc = "lib"
  /\ arg \in ChannelLists

NextWriter ==
  \/ \E f \in FileNames : SaveToFileCall(arg, f)
  \/ \E f \in FileNames : SaveToM3uCall(arg, f)

SpecWriter == InitWriter /\ [][NextWriter]_vars

(***************************************************************************)
(* Vocabulary of the properties.                                           *)
(***************************************************************************)
IdsOf(channels) == {channels[k][1] : k \in DOMAIN channels}

PairwiseDistinct(channels) ==
  \A i, j \in DOMAIN channels : i # j => channels[i][1] # channels[j][1]

\* the identifier a matched record carries: its url without the scheme
IdOfRecord(rec) == SubSeq(rec.url, Len(AceScheme) + 1, Len(rec.url))

\* the (identifier, name) of the records whose identifier no earlier record has and
\* that is not in `seen`, in the order of the records
FirstOccurrences(recs, seen) ==
  LET first(k) == /\ IdOfRecord(recs[k]) \notin seen
                  /\ \A j \in 1..(k - 1) : IdOfRecord(recs[j]) # IdOfRecord(recs[k])
      upTo[k \in 0..Len(recs)] ==
        IF k = 0 THEN <<>>
        ELSE IF first(k) THEN Append(upTo[k - 1], <<IdOfRecord(recs[k]), recs[k].name>>)
        ELSE upTo[k - 1]
  IN upTo[Len(recs)]

\* what scrape() had returned on this object before the current activation's extraction
ReturnedBefore == SubSeq(returned, 1, Len(returned) - Len(frame.channels))

AllFailed == \A k \in DOMAIN frame.outcomes : frame.outcomes[k] = "fail"

Unreadable == <<"unreadable">>

\* a reader of the legacy playlist: each line that starts with #EXTINF:-1, gives a name,
\* and the text after the getstream prefix on the line that follows gives the identifier
ReadLegacy(text) ==
  LET ls == Lines(text)
      entry(k) ==
        LET name == SubSeq(ls[k], Len(EXTINF) + 1, Len(ls[k]))
            id == IF k + 1 <= Len(ls) /\ StartsWith(ls[k + 1], GetStream)
                  THEN SubSeq(ls[k + 1], Len(GetStream) + 1, Len(ls[k + 1]))
                  ELSE Unreadable
        IN <<id, name>>
      upTo[k \in 0..Len(ls)] ==
        IF k = 0 THEN <<>>
        ELSE IF StartsWith(ls[k], EXTINF) THEN Append(upTo[k - 1], entry(k))
        ELSE upTo[k - 1]
  IN upTo[Len(ls)]

NoLineBreak(channels) ==
  \A k \in DOMAIN channels : \A p \in 1..2 : \A c \in DOMAIN channels[k][p] :
    channels[k][p][c] # NL

\* the file f, as written last by a writer, has the playlist layout of its channel list
PlaylistLayout(f) ==
  LET ls == Lines(files[f].text)
      channels == wlog[f].channels
      n == Len(channels)
      uri == IF wlog[f].op = "save_to_file" THEN GetStream ELSE AceScheme
  IN /\ files[f].exists
     /\ Len(ls) = 2 * n + 1
     /\ ls[1] = EXTM3U
     /\ \A i \in 1..n : /\ ls[2 * i] = EXTINF \o channels[i][2]
                        /\ ls[2 * i + 1] = uri \o channels[i][1]

(***************************************************************************)
(* The claims.                                                             *)
(***************************************************************************)

\* C1: on one object, no identifier occurs twice in the concatenation of all the lists
\* extract_from_script has returned, whatever names the records carry.
C1_NoIdentifierTwice == PairwiseDistinct(returned)

\* C1 witness: a later call on a used object met an identifier returned earlier, under
\* another name, and still returned something new.
C1_Witness ==
  /\ last.called /\ ~last.fresh /\ last.result # <<>>
  /\ \E k \in DOMAIN last.doc.links : \E j \in 1..(Len(returned) - Len(last.result)) :
       /\ IdOfRecord(last.doc.links[k]) = returned[j][1]
       /\ last.doc.links[k].name # returned[j][2]

\* C2: called with an empty seen set, extract_from_script returns exactly the first
\* occurrences of the matched records, in match order, each with the name of its first
\* occurrence.
C2_FirstOccurrenceOrder ==
  (last.called /\ last.empty) => last.result = FirstOccurrences(Matched(last.doc), {})

\* C2 witness: two matched records share an identifier under different names and the
\* first one's name is returned.
C2_Witness ==
  /\ last.called /\ last.empty /\ last.doc.script /\ last.doc.json
  /\ Len(last.doc.links) = 2
  /\ IdOfRecord(last.doc.links[1]) = IdOfRecord(last.doc.links[2])
  /\ last.doc.links[1].name # last.doc.links[2].name
  /\ last.result = <<<<IdOfRecord(last.doc.links[1]), last.doc.links[1].name>>>>

C4_SuccessReturns ==
  \A k \in DOMAIN frame.outcomes :
    frame.outcomes[k] = "ok" =>
      /\ k = Len(frame.outcomes)
      /\ frame.pc = "returned"
      /\ scraper.timeout = frame.used[k]
      /\ "fetch_content" \in lastOp
           => frame.channels = FirstOccurrences(Matched(frame.doc), IdsOf(ReturnedBefore))

\* C4 witness: the first attempt fetched a page with the script but no record; scrape()
\* has returned the empty list with retries left.
C4_Witness ==
  /\ frame.pc = "returned"
  /\ frame.outcomes = <<"ok">>
  /\ frame.doc.script /\ frame.doc.json
  /\ frame.channels = <<>>
  /\ frame.retries_left > 0

\* C5: when every fetch attempt fails, scrape() with r >= 0 configured retries makes
\* exactly r+1 attempts and returns the empty list, and main() then prints
\* "No channels found".
C5_ExhaustedRetries ==
  (frame.pc # "idle" /\ scraper.retries >= 0 /\ AllFailed) =>
    /\ frame.pc = "running" => Len(frame.outcomes) <= scraper.retries
    /\ frame.pc = "returned" => /\ Len(frame.outcomes) = scraper.retries + 1
                                /\ frame.channels = <<>>
    /\ mainpc \in {"save_to_file", "save_to_m3u", "done"}
         => mainpc = "done" /\ console.line = "No channels found"

\* C5 witness: main() has finished after all four attempts of the default configuration
\* failed.
C5_Witness ==
  /\ mainpc = "done"
  /\ AllFailed
  /\ Len(frame.outcomes) = DefaultRetries + 1
  /\ console.line = "No channels found"

\* C6: after save_to_file or save_to_m3u wrote a list of n channels, the file has exactly
\* 2n+1 lines: #EXTM3U, then for the i-th channel #EXTINF:-1,<name> on line 2i and the
\* playback line of the writer on line 2i+1.
C6_PlaylistLines ==
  \A f \in FileNames : wlog[f].op # "none" => PlaylistLayout(f)

\* the layout holds for every list whose names and identifiers hold no line break
C6_PlaylistLinesNoBreak ==
  \A f \in FileNames :
    (wlog[f].op # "none" /\ NoLineBreak(wlog[f].channels)) => PlaylistLayout(f)

\* C7: reading a file written by save_to_file back line by line recovers the channel list
\* that was written.
C7_LegacyRoundTrip ==
  \A f \in FileNames :
    wlog[f].op = "save_to_file" => ReadLegacy(files[f].text) = wlog[f].channels

\* the round trip holds for every list whose names and identifiers hold no line break
C7_LegacyRoundTripNoBreak ==
  \A f \in FileNames :
    (wlog[f].op = "save_to_file" /\ NoLineBreak(wlog[f].channels))
      => ReadLegacy(files[f].text) = wlog[f].channels

\* C8: two calls of extract_from_script on the same document, each the first call on a
\* freshly constructed object, return the same list.
C8_FreshRunsAgree ==
  (last.called /\ last.fresh /\ memo.set /\ memo.same) => last.result = memo.result

\* C8 witness: the second of two such calls has returned a non-empty list.
C8_Witness ==
  /\ last.called /\ last.fresh /\ memo.set /\ memo.same
  /\ last.result # <<>>

\* C9: the seen set is empty at construction, never loses an element while the object
\* lives, changes only in a step that runs extract_from_script, and always equals the set
\* of identifiers extract_from_script has returned on the object.
C9_SeenSet ==
  /\ [](scraper.identified_ids = IdsOf(returned))
  /\ [][gen' # gen => scraper'.identified_ids = {}]_vars
  /\ [][gen' = gen => scraper.identified_ids \subseteq scraper'.identified_ids]_vars
  /\ [][(gen' = gen /\ scraper'.identified_ids # scraper.identified_ids)
          => "extract_from_script" \in lastOp']_vars

\* C9 witness: an object whose seen set is not empty has gone through a failed fetch and
\* both writers.
C9_Witness ==
  /\ scraper.identified_ids # {}
  /\ \E k \in DOMAIN frame.outcomes : frame.outcomes[k] = "fail"
  /\ "save_to_m3u" \in lastOp

\* C10: main() calls the writers if and only if scrape() returned a non-empty list: an
\* empty result leaves both files as they were, a non-empty one writes both files from the
\* same list, the legacy file first.
C10_WritesIffChannels ==
  /\ mainpc \in {"start", "constructed", "scrape", "save_to_file"}
       => files = files0 /\ \A f \in FileNames : wlog[f] = NotWritten
  /\ mainpc = "save_to_m3u"
       => /\ wlog[DefaultTxtName] = [op |-> "save_to_file", channels |-> frame.channels]
          /\ wlog[DefaultM3uName] = NotWritten
          /\ files[DefaultM3uName] = files0[DefaultM3uName]
  /\ mainpc = "done"
       => IF frame.channels # <<>>
          THEN /\ wlog[DefaultTxtName] = [op |-> "save_to_file", channels |-> frame.channels]
               /\ wlog[DefaultM3uName] = [op |-> "save_to_m3u", channels |-> frame.channels]
               /\ files[DefaultTxtName].exists /\ files[DefaultM3uName].exists
               /\ files[DefaultTxtName].text # files0[DefaultTxtName].text
               /\ files[DefaultM3uName].text # files0[DefaultM3uName].text
          ELSE /\ files = files0
               /\ \A f \in FileNames : wlog[f] = NotWritten

\* C10 witness: the fetch succeeded, nothing was extracted, and main() has finished with
\* the two existing files untouched.
C10_Witness ==
  /\ mainpc = "done"
  /\ frame.outcomes # <<>> /\ ~AllFailed
  /\ frame.channels = <<>>
  /\ files0[DefaultTxtName] = OldFile
  /\ files = files0

====
